---- MODULE Spec2Model ----
(***************************************************************************)
(* Patient-intake dialogue: the phase controller of backend/agent.py, the  *)
(* callable operations of backend/api.py (HealthAssistantFnc), the patient *)
(* store of backend/db_driver.py (DatabaseDriver) and the report generator *)
(* (report_generator.ReportGenerator).                                     *)
(*                                                                         *)
(* Python strings are TLA+ strings (TLC evaluates Len, SubSeq and \o on    *)
(* them), so substring tests and f-string results are computed as the      *)
(* code computes them.                                                     *)
(***************************************************************************)
EXTENDS Integers, Sequences, FiniteSets, TLC

\* ------------------------------------------------------------------ bounds
MaxSymptoms == 2
MaxReports == 2
MaxTime == 1
NumFreshIds == 1
MaxCreates == 2
MaxGenerations == 4
MaxRepeatSteps == 4

\* ------------------------------------------------- conversations and inputs
\* One HealthAssistantFnc + one entrypoint closure per conversation.
Conversations == {"A", "B"}

\* random.randint(10000000, 99999999)
MinRandom == 10000000
MaxRandom == 99999999

\* The numbers the model lets random.randint draw: the number of the record
\* already in the database, and NumFreshIds numbers from the low end.
DrawNumbers == {12345678} \cup (MinRandom .. (MinRandom + NumFreshIds - 1))

Utterances ==
    { "P12345678", "I have a headache", "that's all", "yes", "Done" }

SymptomTexts == { "headache" }

\* The symptom texts of the runs that look at the symptom list itself: a
\* second text, one that holds the words of the empty-list sentence.
WideSymptomTexts == SymptomTexts \cup { "No symptoms of fever" }

\* Arguments of create_patient (height and weight in tenths: 50.5 is 505).
Profiles ==
    { [name |-> "Mary O'Connor-Smith", age |-> 0, height |-> 505,
       gender |-> "Female", blood_group |-> "O+", weight |-> 35] }

\* The draws of a run of creates made one after the other: the number on
\* record and one fresh number for each create.
SequentialDrawNumbers == {12345678} \cup (MinRandom .. (MinRandom + MaxCreates - 1))

\* The draws of a run of generator calls: the number on record and the two
\* ends of the range of random.randint.
GeneratorDrawNumbers == {12345678, MinRandom, MaxRandom}

\* f"P{random_number}" of those numbers, and an identifier never generated.
GeneratedIds == { "P" \o ToString(n) : n \in DrawNumbers }
LookupIds == GeneratedIds \cup { "P00000000" }

\* ------------------------------------------------------------ string helpers
\* Python: p in u
Contains(u, p) ==
    \E i \in 1 .. (Len(u) - Len(p) + 1) : SubSeq(u, i, i + Len(p) - 1) = p

LowerChar(ch) ==
    CASE ch = "A" -> "a" [] ch = "B" -> "b" [] ch = "C" -> "c" [] ch = "D" -> "d"
      [] ch = "E" -> "e" [] ch = "F" -> "f" [] ch = "G" -> "g" [] ch = "H" -> "h"
      [] ch = "I" -> "i" [] ch = "J" -> "j" [] ch = "K" -> "k" [] ch = "L" -> "l"
      [] ch = "M" -> "m" [] ch = "N" -> "n" [] ch = "O" -> "o" [] ch = "P" -> "p"
      [] ch = "Q" -> "q" [] ch = "R" -> "r" [] ch = "S" -> "s" [] ch = "T" -> "t"
      [] ch = "U" -> "u" [] ch = "V" -> "v" [] ch = "W" -> "w" [] ch = "X" -> "x"
      [] ch = "Y" -> "y" [] ch = "Z" -> "z" [] OTHER -> ch

\* Python: str.lower()
RECURSIVE Lower(_)
Lower(s) ==
    IF Len(s) = 0 THEN ""
    ELSE LowerChar(SubSeq(s, 1, 1)) \o Lower(SubSeq(s, 2, Len(s)))

\* Python: any(phrase in text for phrase in phrases)
AnyPhraseIn(phrases, text) == \E p \in phrases : Contains(text, p)

\* Python: ', '.join(seq)
RECURSIVE Join(_)
Join(seq) ==
    IF Len(seq) = 0 THEN ""
    ELSE IF Len(seq) = 1 THEN seq[1]
    ELSE seq[1] \o ", " \o Join(Tail(seq))

\* ------------------------------------------------------------- Python values
\* The values of the _patient_details dict: "" at construction, afterwards
\* str, int and float values of a Patient.
PyStr(s) == [t |-> "str", v |-> s]
PyInt(n) == [t |-> "int", v |-> n]
PyFloat(tenths) == [t |-> "float", v |-> tenths]

\* Python truth value: "" , 0 and 0.0 are false.
Truthy(x) == IF x.t = "str" THEN x.v # "" ELSE x.v # 0

\* Python: f"{value}"
Format(x) ==
    CASE x.t = "str" -> x.v
      [] x.t = "int" -> ToString(x.v)
      [] x.t = "float" -> ToString(x.v \div 10) \o "." \o ToString(x.v % 10)

\* datetime.strftime("%Y-%m-%d %H:%M:%S") and ("%Y%m%d_%H%M%S") of the
\* instant t seconds after 2024-02-01 14:30:00 (t < 60).
TwoDigits(n) == IF n < 10 THEN "0" \o ToString(n) ELSE ToString(n)
DateTimeText(t) == "2024-02-01 14:30:" \o TwoDigits(t)
DateTimeStamp(t) == "20240201_1430" \o TwoDigits(t)

Put(f, k, v) == [x \in (DOMAIN f) \cup {k} |-> IF x = k THEN v ELSE f[x]]

\* -------------------------------------------------------------------- state
VARIABLES
    patients,               \* the patients table: a set of rows
    files,                  \* the reports folder: path -> text
    now,                    \* the clock, in seconds
    conversation_phase,     \* agent.py: the closure variable, per conversation
    patient_details,        \* api.py: self._patient_details
    symptoms,               \* api.py: self._symptoms
    conversation_complete,  \* api.py: self._conversation_complete
    pc,                     \* where a create_patient call in progress stands
    pending,                \* its arguments and its candidate identifier
    genCalls,               \* generate_and_save_report calls made so far
    created,                \* the patient_id the last successful create returned
    trace,                  \* the steps of a recorded run, with the phase after each
    lastOp,                 \* the step just taken: operation, conversation, input
    out,                    \* messages it created on the session
    responses,              \* session.response.create() calls it made
    ret,                    \* what the callable returned or raised
    calls                   \* the store / report generator calls it made

vars == << patients, files, now, conversation_phase, patient_details, symptoms,
           conversation_complete, pc, pending, genCalls, created, trace, lastOp,
           out, responses, ret, calls >>

convVars == << conversation_phase, patient_details, symptoms,
               conversation_complete >>

\* Optional[datetime] = None
NoneTime == -1

\* Python None as the result of a lookup
None == [none |-> TRUE]

\* The record in the database before the conversations start.
KnownPatient ==
    [patient_id |-> "P12345678", name |-> "John Doe", age |-> 30,
     height |-> 1755, gender |-> "Male", blood_group |-> "O+", weight |-> 700,
     created_at |-> 0]

\* Patient details that start with the word "unknown" for the identifier.
EmptyDetailsUnknown ==
    [patient_id |-> PyStr("unknown"), name |-> PyStr(""), age |-> PyStr(""),
     height |-> PyStr(""), gender |-> PyStr(""), blood_group |-> PyStr(""),
     weight |-> PyStr("")]

EmptyDetails ==
    [patient_id |-> PyStr(""), name |-> PyStr(""), age |-> PyStr(""),
     height |-> PyStr(""), gender |-> PyStr(""), blood_group |-> PyStr(""),
     weight |-> PyStr("")]

NoOp == [name |-> "", conv |-> "", input |-> ""]
NoRet == [status |-> "", text |-> ""]
Returned(text) == [status |-> "returned", text |-> text]
Raised(text) == [status |-> "raised", text |-> text]

\* trace while no run is recorded
NotRecorded == << [name |-> "", input |-> "", phase |-> ""] >>

InitState ==
    /\ patients = { KnownPatient }
    /\ files = << >>
    /\ now = 0
    /\ conversation_phase = [c \in Conversations |-> "info_collection"]
    /\ patient_details = [c \in Conversations |-> EmptyDetails]
    /\ symptoms = [c \in Conversations |-> << >>]
    /\ conversation_complete = [c \in Conversations |-> FALSE]
    /\ pc = [c \in Conversations |-> "idle"]
    /\ pending = [c \in Conversations |-> None]
    /\ genCalls = [c \in Conversations |-> 0]
    /\ created = [c \in Conversations |-> ""]
    /\ lastOp = NoOp
    /\ out = << >>
    /\ responses = 0
    /\ ret = NoRet
    /\ calls = << >>

Init == InitState /\ trace = NotRecorded

\* What a step leaves behind for the observer. A recorded run (trace) is
\* that of conversation "A".
Event(name, c, input, msgs, nresp, r, cl) ==
    /\ lastOp' = [name |-> name, conv |-> c, input |-> input]
    /\ trace' = IF trace = NotRecorded THEN trace
                ELSE Append(trace, [name |-> name, input |-> input,
                                    phase |-> conversation_phase'["A"]])
    /\ out' = msgs
    /\ responses' = nresp
    /\ ret' = r
    /\ calls' = cl

\* --------------------------------------------------- DatabaseDriver (store)
\* _init_db that creates the table anew.
init_db_recreating(table) == {}

\* _init_db: CREATE TABLE IF NOT EXISTS leaves a table that exists, and
\* its rows, as they are.
init_db(table) == table

\* SELECT * FROM patients WHERE patient_id = ?
\* (fetchone: one of the rows the query selects)
RowOf(table, patient_id) ==
    IF \E row \in table : row.patient_id = patient_id
    THEN CHOOSE row \in table : row.patient_id = patient_id
    ELSE None

\* get_patient_by_id without its WHERE clause: a row of the table.
get_patient_by_id_any_row(patient_id) == CHOOSE row \in patients : TRUE

\* get_patient_by_id that finds no row.
get_patient_by_id_no_row(patient_id) == None

get_patient_by_id(patient_id) == RowOf(patients, patient_id)

\* f"P{random_number}"
PatientIdOf(random_number) == "P" \o ToString(random_number)

\* NewRow with no DEFAULT on created_at: the column stays NULL.
NewRowWithoutTimestamp(patient_id, a) ==
    [patient_id |-> patient_id, name |-> a.name, age |-> a.age,
     height |-> a.height, gender |-> a.gender, blood_group |-> a.blood_group,
     weight |-> a.weight, created_at |-> NoneTime]

\* The row INSERT writes: the seven columns given, created_at DEFAULT
\* CURRENT_TIMESTAMP.
NewRow(patient_id, a) ==
    [patient_id |-> patient_id, name |-> a.name, age |-> a.age,
     height |-> a.height, gender |-> a.gender, blood_group |-> a.blood_group,
     weight |-> a.weight, created_at |-> now]

\* Insert with no PRIMARY KEY on patient_id: every INSERT adds its row.
InsertWithoutKey(patient_id, a, fault) ==
    IF fault = "io"
    THEN [ok |-> FALSE, error |-> "OperationalError: disk I/O error",
          table |-> patients]
    ELSE [ok |-> TRUE, error |-> "",
          table |-> patients \cup { NewRow(patient_id, a) }]

\* Insert as INSERT OR REPLACE: the new row takes the place of the old one.
InsertOrReplace(patient_id, a, fault) ==
    IF fault = "io"
    THEN [ok |-> FALSE, error |-> "OperationalError: disk I/O error",
          table |-> patients]
    ELSE [ok |-> TRUE, error |-> "",
          table |-> { row \in patients : row.patient_id # patient_id }
                       \cup { NewRow(patient_id, a) }]

\* INSERT INTO patients ...; conn.commit(): the PRIMARY KEY refuses an
\* identifier the table already holds, and the connection can fail (io).
\* The outcome: [ok, error, table].
Insert(patient_id, a, fault) ==
    IF fault = "io"
    THEN [ok |-> FALSE, error |-> "OperationalError: disk I/O error",
          table |-> patients]
    ELSE IF \E row \in patients : row.patient_id = patient_id
    THEN [ok |-> FALSE,
          error |-> "IntegrityError: UNIQUE constraint failed: patients.patient_id",
          table |-> patients]
    ELSE [ok |-> TRUE, error |-> "",
          table |-> patients \cup { NewRow(patient_id, a) }]

StoreFaults == {"none", "io"}

\* DatabaseDriver.create_patient with a caller-supplied patient_id: one call
\* on the store made by a client that is no conversation.
db_create_patient(a, patient_id, fault) ==
    LET r == Insert(patient_id, a, fault) IN
    /\ patients' = r.table
    /\ UNCHANGED << files, now, convVars, pc, pending, genCalls, created >>
    /\ Event("db_create_patient", "", patient_id, << >>, 0,
             IF r.ok THEN Returned(patient_id) ELSE Raised(r.error),
             << [fn |-> "create_patient", arg |-> patient_id, data |-> a,
                 fault |-> fault] >>)

\* get_patient_by_id called on the store by a client that is no
\* conversation: the row, or None.
db_get_patient_by_id(patient_id) ==
    LET result == get_patient_by_id(patient_id) IN
    /\ UNCHANGED << patients, files, now, convVars, pc, pending, genCalls, created >>
    /\ Event("db_get_patient_by_id", "", patient_id, << >>, 0,
             IF result = None THEN Returned("None")
             ELSE Returned(result.patient_id),
             << [fn |-> "get_patient_by_id", arg |-> patient_id] >>)

\* _generate_patient_id called on the store by a client that is no
\* conversation, one turn of its loop: the identifier drawn is returned
\* when the table does not hold it, and drawn again otherwise.
db_generate_patient_id(random_number) ==
    LET patient_id == PatientIdOf(random_number) IN
    /\ UNCHANGED << patients, files, now, convVars, pc, pending, genCalls, created >>
    /\ Event("db_generate_patient_id", "", patient_id, << >>, 0,
             IF get_patient_by_id(patient_id) = None THEN Returned(patient_id)
             ELSE NoRet,
             << [fn |-> "get_patient_by_id", arg |-> patient_id] >>)

\* ------------------------------------------------ ReportGenerator (reports)
\* Whitespace becomes "_", the characters a filename cannot hold are dropped.
SanitizeChar(ch) ==
    IF ch = " " THEN "_"
    ELSE IF ch \in {"\\", "/", ":", "*", "?", "\"", "<", ">", "|", "'"} THEN ""
    ELSE ch

RECURSIVE SanitizeFrom(_, _)
SanitizeFrom(s, afterSpace) ==
    IF Len(s) = 0 THEN ""
    ELSE LET ch == SubSeq(s, 1, 1)
             rest == SubSeq(s, 2, Len(s))
         IN  IF ch = " " /\ afterSpace THEN SanitizeFrom(rest, TRUE)
             ELSE SanitizeChar(ch) \o SanitizeFrom(rest, ch = " ")

\* generate_filename without the seconds of the consultation time.
generate_filename_by_minute(patient_name, consultation_date) ==
    SanitizeFrom(patient_name, FALSE) \o "_20240201_1430_report.txt"

\* <SanitizedName>_<YYYYMMDD>_<HHMMSS>_report.txt
generate_filename(patient_name, consultation_date) ==
    SanitizeFrom(patient_name, FALSE) \o "_" \o DateTimeStamp(consultation_date)
        \o "_report.txt"

RECURSIVE NumberedFrom(_, _)
NumberedFrom(seq, i) ==
    IF Len(seq) = 0 THEN ""
    ELSE ToString(i) \o ". " \o Head(seq) \o "\n" \o NumberedFrom(Tail(seq), i + 1)

format_symptoms(symptom_list) ==
    IF Len(symptom_list) = 0
    THEN "No symptoms were reported during this consultation.\n"
    ELSE NumberedFrom(symptom_list, 1)

format_patient_info(patient) ==
    "Name: " \o patient.name \o "\n"
    \o "Age: " \o ToString(patient.age) \o " years\n"
    \o "Height: " \o Format(PyFloat(patient.height)) \o " cm\n"
    \o "Weight: " \o Format(PyFloat(patient.weight)) \o " kg\n"
    \o "Gender: " \o patient.gender \o "\n"
    \o "Blood Group: " \o patient.blood_group \o "\n"
    \o "Profile Created: "
    \o (IF patient.created_at = NoneTime THEN "Unknown" ELSE "2024-02-01") \o "\n"

generate_diagnostic_report(patient, symptom_list, consultation_date, generated) ==
    "HEALTH ASSISTANT DIAGNOSTIC REPORT\n"
    \o "==================================================\n"
    \o "CONSULTATION DATE: " \o DateTimeText(consultation_date) \o "\n"
    \o "PATIENT ID: " \o patient.patient_id \o "\n"
    \o "PATIENT INFORMATION:\n" \o format_patient_info(patient)
    \o "SYMPTOMS REPORTED:\n" \o format_symptoms(symptom_list)
    \o "REPORT GENERATED: " \o DateTimeText(generated) \o "\n"
    \o "NOTE: This is an initial assessment, not a medical diagnosis.\n"

ReportFaults == {"none", "folder", "write"}

\* generate_and_save_report(patient, symptoms) with the date omitted: one
\* reading of the clock serves the body and the filename. The outcome:
\* [ok, path, error, folder].
generate_and_save_report(patient, symptom_list, fault) ==
    LET path == "reports/" \o generate_filename(patient.name, now)
        text == generate_diagnostic_report(patient, symptom_list, now, now)
    IN  CASE fault = "folder" ->
               [ok |-> FALSE, path |-> "", folder |-> files,
                error |-> "Failed to create reports folder: Permission denied"]
          [] fault = "write" ->
               [ok |-> FALSE, path |-> "", folder |-> files,
                error |-> "Failed to save report: Permission denied"]
          [] OTHER ->
               [ok |-> TRUE, path |-> path, error |-> "",
                folder |-> Put(files, path, text)]

\* The patients a client of the report generator passes: the record on
\* record, one whose name differs from it in a character a filename
\* cannot hold, and one of another name.
ReportPatients ==
    { KnownPatient,
      [KnownPatient EXCEPT !.patient_id = "P10000000", !.name = "John Doe|"],
      [KnownPatient EXCEPT !.patient_id = "P10000001",
                           !.name = "Mary O'Connor-Smith"] }

\* generate_and_save_report called by a client that is no conversation.
report_generate_and_save(patient, symptom_list, fault) ==
    LET g == generate_and_save_report(patient, symptom_list, fault) IN
    /\ files' = g.folder
    /\ UNCHANGED << patients, now, convVars, pc, pending, genCalls, created >>
    /\ Event("generate_and_save_report", "", patient.name, << >>, 0,
             IF g.ok THEN Returned(g.path) ELSE Raised(g.error),
             << [fn |-> "generate_and_save_report", patient |-> patient,
                 symptoms |-> symptom_list] >>)

\* ------------------------------------------------ HealthAssistantFnc (api)
DetailsOf(result) ==
    [patient_id |-> PyStr(result.patient_id), name |-> PyStr(result.name),
     age |-> PyInt(result.age), height |-> PyFloat(result.height),
     gender |-> PyStr(result.gender), blood_group |-> PyStr(result.blood_group),
     weight |-> PyFloat(result.weight)]

has_patient(c) == patient_details[c].patient_id # PyStr("")

\* is_consultation_complete that never reports completion.
is_consultation_complete_never(c) == FALSE

is_consultation_complete(c) == conversation_complete[c]

get_patient_str(c) ==
    LET d == patient_details[c]
        line(key) ==
            IF Truthy(d[key]) THEN key \o ": " \o Format(d[key]) \o "\n" ELSE ""
    IN  line("patient_id") \o line("name") \o line("age") \o line("height")
        \o line("gender") \o line("blood_group") \o line("weight")

\* Patient(...) built from the dict; created_at keeps its default, None.
get_current_patient(c) ==
    LET d == patient_details[c] IN
    [patient_id |-> d.patient_id.v, name |-> d.name.v, age |-> d.age.v,
     height |-> d.height.v, gender |-> d.gender.v,
     blood_group |-> d.blood_group.v, weight |-> d.weight.v,
     created_at |-> NoneTime]

\* SymptomLines that lists the last symptom only.
SymptomLinesLastOnly(seq, i) ==
    IF Len(seq) = 0 THEN ""
    ELSE ToString(i) \o ". " \o seq[Len(seq)] \o "\n"

RECURSIVE SymptomLines(_, _)
SymptomLines(seq, i) ==
    IF Len(seq) = 0 THEN ""
    ELSE ToString(i) \o ". " \o Head(seq) \o "\n" \o SymptomLines(Tail(seq), i + 1)

\* The text get_symptoms returns.
SymptomsText(c) ==
    IF Len(symptoms[c]) = 0 THEN "No symptoms have been recorded yet."
    ELSE "Recorded symptoms:\n" \o SymptomLines(symptoms[c], 1)

\* lookup_patient that forgets the adopted patient when it finds no row.
lookup_patient_clearing(c, patient_id) ==
    LET result == get_patient_by_id(patient_id) IN
    /\ pc[c] = "idle"
    /\ patient_details' =
         IF result = None THEN [patient_details EXCEPT ![c] = EmptyDetails]
         ELSE [patient_details EXCEPT ![c] = DetailsOf(result)]
    /\ UNCHANGED << patients, files, now, conversation_phase, symptoms,
                    conversation_complete, pc, pending, genCalls, created >>
    /\ Event("lookup_patient", c, patient_id, << >>, 0,
             IF result = None THEN Returned("Patient not found")
             ELSE Returned("The patient details are: " \o get_patient_str(c)'),
             << [fn |-> "get_patient_by_id", arg |-> patient_id] >>)

lookup_patient(c, patient_id) ==
    LET result == get_patient_by_id(patient_id) IN
    /\ pc[c] = "idle"
    /\ patient_details' =
         IF result = None THEN patient_details
         ELSE [patient_details EXCEPT ![c] = DetailsOf(result)]
    /\ UNCHANGED << patients, files, now, conversation_phase, symptoms,
                    conversation_complete, pc, pending, genCalls, created >>
    /\ Event("lookup_patient", c, patient_id, << >>, 0,
             IF result = None THEN Returned("Patient not found")
             ELSE Returned("The patient details are: " \o get_patient_str(c)'),
             << [fn |-> "get_patient_by_id", arg |-> patient_id] >>)

get_patient_details(c) ==
    /\ pc[c] = "idle"
    /\ UNCHANGED << patients, files, now, convVars, pc, pending, genCalls, created >>
    /\ Event("get_patient_details", c, "", << >>, 0,
             Returned("The patient details are: " \o get_patient_str(c)), << >>)

\* create_patient, up to the first statement of DB.create_patient: the
\* identifier is omitted, so _generate_patient_id runs next.
create_patient(c, a) ==
    /\ pc[c] = "idle"
    /\ pc' = [pc EXCEPT ![c] = "generate"]
    /\ pending' = [pending EXCEPT ![c] = [args |-> a, cand |-> ""]]
    /\ UNCHANGED << patients, files, now, convVars, genCalls, created >>
    /\ Event("create_patient", c, a.name, << >>, 0, NoRet, << >>)

\* One turn of the loop of _generate_patient_id: draw, look the identifier
\* up, return it when the table does not hold it.
\* _generate_patient_id with its test turned round: it returns a candidate
\* that is in the table and draws again when the candidate is absent.
generate_patient_id_inverted(c, random_number) ==
    LET patient_id == PatientIdOf(random_number) IN
    /\ pc[c] = "generate"
    /\ IF get_patient_by_id(patient_id) # None
       THEN /\ pc' = [pc EXCEPT ![c] = "insert"]
            /\ pending' = [pending EXCEPT ![c].cand = patient_id]
       ELSE UNCHANGED << pc, pending >>
    /\ UNCHANGED << patients, files, now, convVars, genCalls, created >>
    /\ Event("_generate_patient_id", c, patient_id, << >>, 0, NoRet,
             << [fn |-> "get_patient_by_id", arg |-> patient_id] >>)

generate_patient_id(c, random_number) ==
    LET patient_id == PatientIdOf(random_number) IN
    /\ pc[c] = "generate"
    /\ IF get_patient_by_id(patient_id) = None
       THEN /\ pc' = [pc EXCEPT ![c] = "insert"]
            /\ pending' = [pending EXCEPT ![c].cand = patient_id]
       ELSE UNCHANGED << pc, pending >>
    /\ UNCHANGED << patients, files, now, convVars, genCalls, created >>
    /\ Event("_generate_patient_id", c, patient_id, << >>, 0, NoRet,
             << [fn |-> "get_patient_by_id", arg |-> patient_id] >>)

\* The rest of DB.create_patient (INSERT, commit, read back) and of
\* create_patient: an exception of the store leaves through both.
insert_patient(c, fault) ==
    LET patient_id == pending[c].cand
        r == Insert(patient_id, pending[c].args, fault)
        result == RowOf(r.table, patient_id)
        adopted == r.ok /\ result # None
    IN
    /\ pc[c] = "insert"
    /\ patients' = r.table
    /\ pc' = [pc EXCEPT ![c] = "idle"]
    /\ pending' = [pending EXCEPT ![c] = None]
    /\ patient_details' =
         IF adopted THEN [patient_details EXCEPT ![c] = DetailsOf(result)]
         ELSE patient_details
    /\ created' = IF adopted THEN [created EXCEPT ![c] = result.patient_id]
                  ELSE created
    /\ UNCHANGED << files, now, conversation_phase, symptoms,
                    conversation_complete, genCalls >>
    /\ Event("insert_patient", c, patient_id, << >>, 0,
             IF ~r.ok THEN Raised(r.error)
             ELSE IF result = None THEN Returned("Failed to create patient")
             ELSE Returned("Patient created! Your patient ID is: " \o patient_id),
             << [fn |-> "create_patient", arg |-> patient_id,
                 data |-> pending[c].args, fault |-> fault] >>)

\* DB.create_patient statement by statement, for the runs in which the
\* process can end between two statements. The INSERT: the row is written
\* in the transaction of the connection, or the statement raises.
insert_execute(c, fault) ==
    LET patient_id == pending[c].cand
        r == Insert(patient_id, pending[c].args, fault)
    IN
    /\ pc[c] = "insert"
    /\ IF r.ok
       THEN /\ pc' = [pc EXCEPT ![c] = "commit"]
            /\ pending' = [pending EXCEPT ![c] =
                             [args |-> pending[c].args, cand |-> patient_id,
                              row |-> CHOOSE row \in r.table \ patients : TRUE]]
       ELSE /\ pc' = [pc EXCEPT ![c] = "idle"]
            /\ pending' = [pending EXCEPT ![c] = None]
    /\ UNCHANGED << patients, files, now, convVars, genCalls, created >>
    /\ Event("insert_execute", c, patient_id, << >>, 0,
             IF r.ok THEN NoRet ELSE Raised(r.error),
             << [fn |-> "create_patient", arg |-> patient_id,
                 data |-> pending[c].args, fault |-> fault] >>)

\* conn.commit(), the read back and the return of create_patient: the row
\* of the transaction becomes a row of the table.
insert_commit(c) ==
    LET patient_id == pending[c].cand
        table == patients \cup { pending[c].row }
        result == RowOf(table, patient_id)
    IN
    /\ pc[c] = "commit"
    /\ patients' = table
    /\ pc' = [pc EXCEPT ![c] = "idle"]
    /\ pending' = [pending EXCEPT ![c] = None]
    /\ patient_details' =
         IF result # None THEN [patient_details EXCEPT ![c] = DetailsOf(result)]
         ELSE patient_details
    /\ created' = IF result # None THEN [created EXCEPT ![c] = result.patient_id]
                  ELSE created
    /\ UNCHANGED << files, now, conversation_phase, symptoms,
                    conversation_complete, genCalls >>
    /\ Event("insert_commit", c, patient_id, << >>, 0,
             IF result = None THEN Returned("Failed to create patient")
             ELSE Returned("Patient created! Your patient ID is: " \o patient_id),
             << [fn |-> "get_patient_by_id", arg |-> patient_id] >>)

\* add_symptom on a list that belongs to the class, not to the instance:
\* every conversation sees the append.
add_symptom_shared(c, symptom) ==
    /\ pc[c] = "idle"
    /\ Len(symptoms[c]) < MaxSymptoms
    /\ symptoms' = [d \in Conversations |->
                       IF d = c \/ Len(symptoms[d]) < MaxSymptoms
                       THEN Append(symptoms[d], symptom) ELSE symptoms[d]]
    /\ UNCHANGED << patients, files, now, conversation_phase, patient_details,
                    conversation_complete, pc, pending, genCalls, created >>
    /\ Event("add_symptom", c, symptom, << >>, 0,
             Returned("Symptom added: " \o symptom \o ". Total symptoms recorded: "
                      \o ToString(Len(symptoms'[c]))), << >>)

add_symptom(c, symptom) ==
    /\ pc[c] = "idle"
    /\ Len(symptoms[c]) < MaxSymptoms
    /\ symptoms' = [symptoms EXCEPT ![c] = Append(@, symptom)]
    /\ UNCHANGED << patients, files, now, conversation_phase, patient_details,
                    conversation_complete, pc, pending, genCalls, created >>
    /\ Event("add_symptom", c, symptom, << >>, 0,
             Returned("Symptom added: " \o symptom \o ". Total symptoms recorded: "
                      \o ToString(Len(symptoms'[c]))), << >>)

get_symptoms(c) ==
    /\ pc[c] = "idle"
    /\ UNCHANGED << patients, files, now, convVars, pc, pending, genCalls, created >>
    /\ Event("get_symptoms", c, "", << >>, 0, Returned(SymptomsText(c)), << >>)

\* EndConsultation without the try/except: the exception of the report
\* generator leaves the call and the consultation stays as it was.
EndConsultationUncaught(c, fault) ==
    IF ~has_patient(c)
    THEN [complete |-> conversation_complete[c], folder |-> files,
          ret |-> Returned("Cannot end consultation: No patient information available."),
          calls |-> << >>]
    ELSE LET patient == get_current_patient(c)
             g == generate_and_save_report(patient, symptoms[c], fault)
         IN  [complete |-> IF g.ok THEN TRUE ELSE conversation_complete[c],
              folder |-> g.folder,
              ret |-> IF g.ok
                      THEN Returned("Consultation complete! Your diagnostic report has been generated and saved. Thank you for using our health assistant service. Report saved as: "
                                    \o g.path)
                      ELSE Raised(g.error),
              calls |-> << [fn |-> "generate_and_save_report",
                            patient |-> patient, symptoms |-> symptoms[c]] >>]

\* EndConsultation that marks the consultation complete before it looks
\* for the patient.
EndConsultationMarksFirst(c, fault) ==
    IF ~has_patient(c)
    THEN [complete |-> TRUE, folder |-> files,
          ret |-> Returned("Cannot end consultation: No patient information available."),
          calls |-> << >>]
    ELSE LET patient == get_current_patient(c)
             g == generate_and_save_report(patient, symptoms[c], fault)
         IN  [complete |-> TRUE, folder |-> g.folder,
              ret |-> IF g.ok
                      THEN Returned("Consultation complete! Your diagnostic report has been generated and saved. Thank you for using our health assistant service. Report saved as: "
                                    \o g.path)
                      ELSE Returned("Consultation marked as complete, but there was an issue generating your report: "
                                    \o g.error \o ". Please contact support if needed."),
              calls |-> << [fn |-> "generate_and_save_report",
                            patient |-> patient, symptoms |-> symptoms[c]] >>]

\* EndConsultation that takes the outcome of the save for the completion
\* flag.
EndConsultationCompleteWhenSaved(c, fault) ==
    IF ~has_patient(c)
    THEN [complete |-> conversation_complete[c], folder |-> files,
          ret |-> Returned("Cannot end consultation: No patient information available."),
          calls |-> << >>]
    ELSE LET patient == get_current_patient(c)
             g == generate_and_save_report(patient, symptoms[c], fault)
         IN  [complete |-> g.ok, folder |-> g.folder,
              ret |-> IF g.ok
                      THEN Returned("Consultation complete! Your diagnostic report has been generated and saved. Thank you for using our health assistant service. Report saved as: "
                                    \o g.path)
                      ELSE Returned("Consultation marked as complete, but there was an issue generating your report: "
                                    \o g.error \o ". Please contact support if needed."),
              calls |-> << [fn |-> "generate_and_save_report",
                            patient |-> patient, symptoms |-> symptoms[c]] >>]

\* What end_consultation does: [complete, folder, ret, calls].
EndConsultation(c, fault) ==
    IF ~has_patient(c)
    THEN [complete |-> conversation_complete[c], folder |-> files,
          ret |-> Returned("Cannot end consultation: No patient information available."),
          calls |-> << >>]
    ELSE LET patient == get_current_patient(c)
             g == generate_and_save_report(patient, symptoms[c], fault)
         IN  [complete |-> TRUE, folder |-> g.folder,
              ret |-> IF g.ok
                      THEN Returned("Consultation complete! Your diagnostic report has been generated and saved. Thank you for using our health assistant service. Report saved as: "
                                    \o g.path)
                      ELSE Returned("Consultation marked as complete, but there was an issue generating your report: "
                                    \o g.error \o ". Please contact support if needed."),
              calls |-> << [fn |-> "generate_and_save_report",
                            patient |-> patient, symptoms |-> symptoms[c]] >>]

end_consultation(c, fault) ==
    LET e == EndConsultation(c, fault) IN
    /\ pc[c] = "idle"
    /\ Len(e.calls) > 0 => genCalls[c] < MaxReports
    /\ conversation_complete' = [conversation_complete EXCEPT ![c] = e.complete]
    /\ files' = e.folder
    /\ genCalls' = [genCalls EXCEPT ![c] = @ + Len(e.calls)]
    /\ UNCHANGED << patients, now, conversation_phase, patient_details, symptoms,
                    pc, pending, created >>
    /\ Event("end_consultation", c, fault, << >>, 0, e.ret, e.calls)

\* ------------------------------------------------------- entrypoint (agent)
\* prompts.py, each text cut to its first sentence.
LOOKUP_PATIENT_MESSAGE(msg) ==
    "If the patient has provided a patient ID attempt to look it up. Here is the patient's message: "
        \o msg
SYMPTOM_COLLECTION_MESSAGE ==
    "Now that we have your basic information, let's discuss your symptoms."
SYMPTOM_FOLLOWUP_MESSAGE(symptom_list) ==
    "Based on the symptoms you've mentioned so far: " \o Join(symptom_list)
        \o ", I'd like to gather more details."
CONVERSATION_COMPLETION_MESSAGE ==
    "Thank you for providing all this information. Is there anything else you'd like to add about your symptoms or condition?"
REPORT_GENERATION_MESSAGE ==
    "I'm now generating your diagnostic report based on the information and symptoms you've provided."

CompletedAck ==
    "Your consultation has been completed and your report has been generated. Thank you!"

\* The completion phrases without "that's all".
CompletionPhrasesWithoutThatsAll ==
    { "nothing else", "done", "complete", "finish", "end consultation" }

\* The affirmative phrases without "done".
AffirmativePhrasesWithoutDone == { "yes", "generate", "complete", "finish" }

CompletionPhrases ==
    { "that's all", "nothing else", "done", "complete", "finish", "end consultation" }
\* The affirmative phrases with "that's all" among them.
AffirmativePhrasesWithThatsAll ==
    { "yes", "generate", "complete", "done", "finish", "that's all" }

AffirmativePhrases == { "yes", "generate", "complete", "done", "finish" }

ChatMessage(role, content) == [role |-> role, content |-> content]

\* find_profile that moves on to the symptoms.
find_profile_advancing(c, content) ==
    [phase |-> "symptoms",
     msgs |-> << ChatMessage("system", LOOKUP_PATIENT_MESSAGE(content)) >>,
     responses |-> 1]

\* find_profile: [phase, msgs, responses]
find_profile(c, content) ==
    [phase |-> conversation_phase[c],
     msgs |-> << ChatMessage("system", LOOKUP_PATIENT_MESSAGE(content)) >>,
     responses |-> 1]

\* handle_query: [phase, msgs, responses]
handle_query(c, content, phase) ==
    IF phase = "info_collection" /\ has_patient(c)
    THEN [phase |-> "symptoms", responses |-> 1,
          msgs |-> << ChatMessage("system",
                        SYMPTOM_COLLECTION_MESSAGE \o " User message: " \o content) >>]
    ELSE IF phase = "symptoms"
    THEN IF AnyPhraseIn(CompletionPhrases, Lower(content))
         THEN [phase |-> "completion", responses |-> 1,
               msgs |-> << ChatMessage("system",
                             CONVERSATION_COMPLETION_MESSAGE \o " User message: "
                                 \o content) >>]
         ELSE IF Contains(SymptomsText(c), "No symptoms")
         THEN [phase |-> phase, responses |-> 1,
               msgs |-> << ChatMessage("system",
                             "Collect the patient's symptoms. User message: "
                                 \o content) >>]
         ELSE [phase |-> phase, responses |-> 1,
               msgs |-> << ChatMessage("system",
                             SYMPTOM_FOLLOWUP_MESSAGE(symptoms[c])
                                 \o " User message: " \o content) >>]
    ELSE IF phase = "completion"
    THEN IF AnyPhraseIn(AffirmativePhrases, Lower(content))
         THEN [phase |-> phase, responses |-> 1,
               msgs |-> << ChatMessage("system",
                             REPORT_GENERATION_MESSAGE
                                 \o " Please call the end_consultation function to generate the report.") >>]
         ELSE [phase |-> "symptoms", responses |-> 1,
               msgs |-> << ChatMessage("system",
                             "Continue collecting symptoms or information. User message: "
                                 \o content) >>]
    ELSE [phase |-> phase, responses |-> 1,
          msgs |-> << ChatMessage("user", content) >>]

\* UserSpeech that starts the conversation over once it is complete.
UserSpeechRestarting(c, content) ==
    IF is_consultation_complete(c)
    THEN [phase |-> "info_collection", responses |-> 1,
          msgs |-> << ChatMessage("assistant", CompletedAck) >>]
    ELSE IF has_patient(c)
    THEN handle_query(c, content, conversation_phase[c])
    ELSE find_profile(c, content)

\* UserSpeech that looks for a completion phrase in the utterance that
\* follows the adoption of the patient.
UserSpeechMatchingFirst(c, content) ==
    IF is_consultation_complete(c)
    THEN [phase |-> conversation_phase[c], responses |-> 1,
          msgs |-> << ChatMessage("assistant", CompletedAck) >>]
    ELSE IF has_patient(c)
    THEN handle_query(c, content,
                      IF conversation_phase[c] = "info_collection"
                         /\ AnyPhraseIn(CompletionPhrases, Lower(content))
                      THEN "symptoms" ELSE conversation_phase[c])
    ELSE find_profile(c, content)

\* UserSpeech that hands every utterance to handle_query, patient or not.
UserSpeechAlwaysHandlingQuery(c, content) ==
    IF is_consultation_complete(c)
    THEN [phase |-> conversation_phase[c], responses |-> 1,
          msgs |-> << ChatMessage("assistant", CompletedAck) >>]
    ELSE handle_query(c, content, conversation_phase[c])

\* UserSpeech without the check of is_consultation_complete.
UserSpeechIgnoringCompletion(c, content) ==
    IF has_patient(c)
    THEN handle_query(c, content, conversation_phase[c])
    ELSE find_profile(c, content)

\* The handler of "user_speech_committed": [phase, msgs, responses]
UserSpeech(c, content) ==
    IF is_consultation_complete(c)
    THEN [phase |-> conversation_phase[c], responses |-> 1,
          msgs |-> << ChatMessage("assistant", CompletedAck) >>]
    ELSE IF has_patient(c)
    THEN handle_query(c, content, conversation_phase[c])
    ELSE find_profile(c, content)

\* on_user_speech_committed that also records the utterance as a symptom.
on_user_speech_committed_recording(c, content) ==
    LET h == UserSpeech(c, content) IN
    /\ pc[c] = "idle"
    /\ conversation_phase' = [conversation_phase EXCEPT ![c] = h.phase]
    /\ symptoms' = IF Len(symptoms[c]) < MaxSymptoms
                   THEN [symptoms EXCEPT ![c] = Append(@, content)]
                   ELSE symptoms
    /\ UNCHANGED << patients, files, now, patient_details,
                    conversation_complete, pc, pending, genCalls, created >>
    /\ Event("on_user_speech_committed", c, content, h.msgs, h.responses,
             NoRet, << >>)

on_user_speech_committed(c, content) ==
    LET h == UserSpeech(c, content) IN
    /\ pc[c] = "idle"
    /\ conversation_phase' = [conversation_phase EXCEPT ![c] = h.phase]
    /\ UNCHANGED << patients, files, now, patient_details, symptoms,
                    conversation_complete, pc, pending, genCalls, created >>
    /\ Event("on_user_speech_committed", c, content, h.msgs, h.responses,
             NoRet, << >>)

\* ------------------------------------------------------------------- clock
Tick ==
    /\ now < MaxTime
    /\ now' = now + 1
    /\ UNCHANGED << patients, files, convVars, pc, pending, genCalls, created >>
    /\ Event("tick", "", "", << >>, 0, NoRet, << >>)

\* ----------------------------------------------------------------- process
\* The process ends, at any statement, and is started again: DatabaseDriver()
\* runs _init_db on the database file, every conversation is a new
\* HealthAssistantFnc and a new entrypoint closure, and the transaction of
\* a connection that was open is gone with the connection.
Restart ==
    /\ patients' = init_db(patients)
    /\ conversation_phase' = [c \in Conversations |-> "info_collection"]
    /\ patient_details' = [c \in Conversations |-> EmptyDetails]
    /\ symptoms' = [c \in Conversations |-> << >>]
    /\ conversation_complete' = [c \in Conversations |-> FALSE]
    /\ pc' = [c \in Conversations |-> "idle"]
    /\ pending' = [c \in Conversations |-> None]
    /\ genCalls' = [c \in Conversations |-> 0]
    /\ created' = [c \in Conversations |-> ""]
    /\ UNCHANGED << files, now >>
    /\ Event("restart", "", "", << >>, 0, NoRet, << >>)

\* ---------------------------------------------------------- specifications
\* What conversation c does with the patient store.
StoreStep(c) ==
    \/ \E id \in LookupIds : lookup_patient(c, id)
    \/ \E a \in Profiles : create_patient(c, a)
    \/ \E n \in DrawNumbers : generate_patient_id(c, n)
    \/ \E f \in StoreFaults : insert_patient(c, f)

\* The utterances of conversation c and its other callable operations.
DialogueStep(c) ==
    \/ \E u \in Utterances : on_user_speech_committed(c, u)
    \/ get_patient_details(c)
    \/ \E s \in SymptomTexts : add_symptom(c, s)
    \/ get_symptoms(c)
    \/ \E f \in ReportFaults : end_consultation(c, f)

\* One conversation with its store and its reports folder, within one
\* second of the clock.
Next ==
    \/ StoreStep("A")
    \/ DialogueStep("A")

Spec == Init /\ [][Next]_vars

\* The store shared: the store operations of two conversations and of a
\* client that passes its own patient_id, while the clock runs.
NextStore ==
    \/ \E c \in Conversations : StoreStep(c)
    \/ \E a \in Profiles, id \in GeneratedIds, f \in StoreFaults :
          db_create_patient(a, id, f)
    \/ \E id \in LookupIds : db_get_patient_by_id(id)
    \/ Tick

SpecStore == Init /\ [][NextStore]_vars

\* The symptom list of one conversation: the patient on record is looked
\* up, symptoms of either text are added and listed, utterances arrive.
NextSymptoms ==
    \/ lookup_patient("A", "P12345678")
    \/ \E u \in Utterances : on_user_speech_committed("A", u)
    \/ \E s \in WideSymptomTexts : add_symptom("A", s)
    \/ get_symptoms("A")

SpecSymptoms == Init /\ [][NextSymptoms]_vars

\* The creates of one conversation, one after the other, with no other
\* writer of the table; the created records are looked up.
NextCreates ==
    \/ \E a \in Profiles : create_patient("A", a)
    \/ \E n \in SequentialDrawNumbers : generate_patient_id("A", n)
    \/ \E f \in StoreFaults : insert_patient("A", f)
    \/ \E n \in SequentialDrawNumbers : lookup_patient("A", PatientIdOf(n))
    \/ Tick

SpecCreates == Init /\ [][NextCreates]_vars

\* A recorded run of conversation "A": the four utterances arrive in this
\* order, and between them the session calls what it chooses to.
ScenarioUtterances == << "P12345678", "I have a headache", "that's all", "yes" >>

\* The run in which the session does what each instruction asks for.
CooperativeRun ==
    << [name |-> "on_user_speech_committed", input |-> "P12345678"],
       [name |-> "lookup_patient", input |-> "P12345678"],
       [name |-> "on_user_speech_committed", input |-> "I have a headache"],
       [name |-> "add_symptom", input |-> "headache"],
       [name |-> "on_user_speech_committed", input |-> "that's all"],
       [name |-> "on_user_speech_committed", input |-> "yes"],
       [name |-> "end_consultation", input |-> "none"] >>

UtterancesHandled ==
    Cardinality({ i \in 1 .. Len(trace) : trace[i].name = "on_user_speech_committed" })

ScenarioOpen == Len(trace) < Len(CooperativeRun)

InitScenario == InitState /\ trace = << >>

NextScenario ==
    \/ /\ ScenarioOpen
       /\ UtterancesHandled < Len(ScenarioUtterances)
       /\ on_user_speech_committed("A", ScenarioUtterances[UtterancesHandled + 1])
    \/ ScenarioOpen /\ lookup_patient("A", "P12345678")
    \/ ScenarioOpen /\ add_symptom("A", "headache")
    \/ ScenarioOpen /\ \E f \in {"none", "write"} : end_consultation("A", f)

SpecScenario == InitScenario /\ [][NextScenario]_vars

\* The reports folder: reports are generated and saved for the three
\* patients while the clock runs.
NextReports ==
    \/ \E patient \in ReportPatients, fault \in ReportFaults :
          report_generate_and_save(patient, << "headache" >>, fault)
    \/ Tick

SpecReports == Init /\ [][NextReports]_vars

\* Two conversations side by side, on one store and one reports folder.
TwoStep(c) ==
    \/ lookup_patient(c, "P12345678")
    \/ \E u \in {"that's all", "yes"} : on_user_speech_committed(c, u)
    \/ \E s \in SymptomTexts : add_symptom(c, s)
    \/ end_consultation(c, "none")

NextTwo == \E c \in Conversations : TwoStep(c)

SpecTwo == Init /\ [][NextTwo]_vars

\* The session has just been told to call end_consultation.
SessionInstructedToEnd(c) ==
    /\ lastOp.name = "on_user_speech_committed" /\ lastOp.conv = c
    /\ Len(out) = 1
    /\ Contains(out[1].content, "Please call the end_consultation function")

\* The close of a consultation, recorded from a state the conversation has
\* reached with a patient adopted: the user says a completion phrase, then
\* an affirmative phrase, and the session makes the end_consultation call
\* when it is told to.
StartClosing ==
    /\ trace = NotRecorded
    /\ has_patient("A") /\ ~is_consultation_complete("A")
    /\ trace' = << >>
    /\ UNCHANGED << patients, files, now, convVars, pc, pending, genCalls,
                    created, lastOp, out, responses, ret, calls >>

ClosingStep ==
    \/ /\ Len(trace) = 0
       /\ \E u \in Utterances :
             /\ AnyPhraseIn(CompletionPhrases, Lower(u))
             /\ on_user_speech_committed("A", u)
    \/ /\ Len(trace) = 1
       /\ \E u \in Utterances :
             /\ AnyPhraseIn(AffirmativePhrases, Lower(u))
             /\ on_user_speech_committed("A", u)
    \/ /\ Len(trace) = 2 /\ SessionInstructedToEnd("A")
       /\ \E f \in ReportFaults : end_consultation("A", f)

NextClosing ==
    \/ trace = NotRecorded /\ lookup_patient("A", "P12345678")
    \/ trace = NotRecorded /\ \E u \in Utterances : on_user_speech_committed("A", u)
    \/ trace = NotRecorded /\ \E s \in SymptomTexts : add_symptom("A", s)
    \/ StartClosing
    \/ trace # NotRecorded /\ ClosingStep

\* A step of the close can be taken: an utterance is due, or the session
\* has been told to make its call.
ClosingEnabled ==
    /\ trace # NotRecorded
    /\ \/ Len(trace) \in {0, 1}
       \/ Len(trace) = 2 /\ SessionInstructedToEnd("A")

\* A step of the close is taken: the recorded run grows by an utterance or
\* by the end_consultation call.
ClosingAdvances ==
    /\ ClosingEnabled
    /\ \E name \in {"on_user_speech_committed", "end_consultation"},
          input \in Utterances \cup ReportFaults,
          phase \in {"info_collection", "symptoms", "completion"} :
          trace' = Append(trace, [name |-> name, input |-> input, phase |-> phase])

\* The handlers and the callables return (no loop, no wait), so a step of
\* the close that can be taken is taken.
SpecClosing == Init /\ [][NextClosing]_vars /\ WF_trace(ClosingAdvances)

\* One conversation whose process can end and start again at any
\* statement of a create.
NextRestart ==
    \/ \E a \in Profiles : create_patient("A", a)
    \/ \E n \in DrawNumbers : generate_patient_id("A", n)
    \/ \E f \in StoreFaults : insert_execute("A", f)
    \/ insert_commit("A")
    \/ \E id \in LookupIds : lookup_patient("A", id)
    \/ on_user_speech_committed("A", "that's all")
    \/ \E s \in SymptomTexts : add_symptom("A", s)
    \/ Restart
    \/ Tick

SpecRestart == Init /\ [][NextRestart]_vars

\* A recorded run of one conversation: the lookup of the patient on record,
\* utterances and symptoms, MaxRepeatSteps steps long.
NextRepeat ==
    /\ Len(trace) < MaxRepeatSteps
    /\ \/ lookup_patient("A", "P12345678")
       \/ \E u \in Utterances : on_user_speech_committed("A", u)
       \/ \E s \in SymptomTexts : add_symptom("A", s)

SpecRepeat == InitScenario /\ [][NextRepeat]_vars

\* The creates of two conversations and of a client that passes its own
\* patient_id, with the sampling of random.randint fair: while
\* _generate_patient_id loops, every number of the range is drawn sooner
\* or later.
NextSampling ==
    \/ \E c \in Conversations, a \in Profiles : create_patient(c, a)
    \/ \E c \in Conversations, n \in DrawNumbers : generate_patient_id(c, n)
    \/ \E c \in Conversations, f \in StoreFaults : insert_patient(c, f)
    \/ \E a \in Profiles, id \in GeneratedIds, f \in StoreFaults :
          db_create_patient(a, id, f)

FairSampling ==
    \A c \in Conversations, n \in DrawNumbers :
        WF_vars(generate_patient_id(c, n))

SpecSampling == Init /\ [][NextSampling]_vars /\ FairSampling

\* A recorded run of generator calls with no insertion between them.
NextGenerator ==
    /\ Len(trace) < MaxGenerations
    /\ \E n \in GeneratorDrawNumbers : db_generate_patient_id(n)

SpecGenerator == InitScenario /\ [][NextGenerator]_vars

\* ==================================================================== claims
NoPatientText == "Cannot end consultation: No patient information available."

UtteranceBy(c) == lastOp.name = "on_user_speech_committed" /\ lastOp.conv = c
EndConsultationBy(c) == lastOp.name = "end_consultation" /\ lastOp.conv = c
ReportCall == Len(calls) = 1 /\ calls[1].fn = "generate_and_save_report"

\* C1: once the consultation is complete, handling an utterance leaves the
\* phase, the symptoms and the adopted patient as they were, creates the one
\* fixed acknowledgment, and calls neither the store nor the report
\* generator (the table and the reports folder stay as they were).
C1_CompleteUtteranceOnlyAcknowledges ==
    [][\A c \in Conversations :
         (conversation_complete[c] /\ UtteranceBy(c)')
            => /\ conversation_phase' = conversation_phase
               /\ symptoms' = symptoms
               /\ patient_details' = patient_details
               /\ conversation_complete' = conversation_complete
               /\ out' = << ChatMessage("assistant", CompletedAck) >>
               /\ calls' = << >>
               /\ patients' = patients
               /\ files' = files]_vars

\* An utterance that would move the phase (a completion phrase in phase
\* symptoms) was answered by the acknowledgment.
C1_Witness ==
    \E c \in Conversations :
        /\ conversation_complete[c] /\ UtteranceBy(c)
        /\ conversation_phase[c] = "symptoms" /\ lastOp.input = "that's all"
        /\ out = << ChatMessage("assistant", CompletedAck) >>

\* C2: end_consultation with a patient adopted returns (never raises) with
\* the consultation complete; after a successful save the text names the
\* path of the saved file, after a failure of the report generator it
\* holds the text of the error.
C2_EndConsultationAlwaysCompletes ==
    \A c \in Conversations :
        (EndConsultationBy(c) /\ has_patient(c))
           => LET g == generate_and_save_report(get_current_patient(c),
                                                symptoms[c], lastOp.input)
              IN  /\ conversation_complete[c]
                  /\ ret.status = "returned"
                  /\ ReportCall
                  /\ g.ok => (g.path \in DOMAIN files /\ Contains(ret.text, g.path))
                  /\ ~g.ok => (g.error # "" /\ Contains(ret.text, g.error))

C2_Witness ==
    \E c \in Conversations :
        /\ EndConsultationBy(c) /\ has_patient(c) /\ lastOp.input = "write"
        /\ conversation_complete[c]
        /\ Contains(ret.text, "Failed to save report")

\* C3 as claimed: the consultation never becomes complete while the phase
\* is info_collection or symptoms.
C3_CompleteOnlyFromCompletionPhase ==
    [][\A c \in Conversations :
         (~conversation_complete[c] /\ conversation_complete'[c])
            => conversation_phase[c] = "completion"]_vars

\* C3 amended: the consultation becomes complete only in an end_consultation
\* call made with a patient adopted, which calls the report generator once;
\* the phase does not matter.
C3_CompleteOnlyByReportAttempt ==
    [][\A c \in Conversations :
         (~conversation_complete[c] /\ conversation_complete'[c])
            => /\ EndConsultationBy(c)'
               /\ has_patient(c)
               /\ ReportCall']_vars

C3_Witness ==
    \E c \in Conversations :
        /\ EndConsultationBy(c) /\ conversation_complete[c] /\ genCalls[c] = 1
        /\ conversation_phase[c] = "info_collection"

\* The recorded run, without the phases.
TraceSteps == [i \in 1 .. Len(trace) |-> [name |-> trace[i].name, input |-> trace[i].input]]

\* The phase at the start and after each utterance of the recorded run.
IsUtterance(e) == e.name = "on_user_speech_committed"
PhaseSequence ==
    << "info_collection" >>
        \o [i \in 1 .. Len(SelectSeq(trace, IsUtterance)) |->
               SelectSeq(trace, IsUtterance)[i].phase]

OneReportWithTheSymptom ==
    /\ Cardinality(DOMAIN files) = 1
    /\ \A path \in DOMAIN files :
          /\ Contains(files[path], "SYMPTOMS REPORTED:\n1. headache\n")
          /\ ~Contains(files[path], "\n2. ")

\* C4 as claimed: the four utterances, answered by the session as
\* instructed, take the phase through info_collection, symptoms, symptoms,
\* completion, completion, and end complete with one report file that
\* holds the one symptom.
C4_ScenarioAsClaimed ==
    TraceSteps = CooperativeRun
       => /\ PhaseSequence = << "info_collection", "symptoms", "symptoms",
                                "completion", "completion" >>
          /\ conversation_complete["A"]
          /\ OneReportWithTheSymptom

\* C4 amended: the first utterance finds no patient adopted and leaves the
\* phase at info_collection; the phases are info_collection,
\* info_collection, symptoms, completion, completion.
C4_ScenarioPhases ==
    TraceSteps = CooperativeRun
       => /\ PhaseSequence = << "info_collection", "info_collection", "symptoms",
                                "completion", "completion" >>
          /\ conversation_complete["A"]
          /\ OneReportWithTheSymptom

C4_Witness ==
    /\ TraceSteps = CooperativeRun
    /\ conversation_complete["A"]
    /\ symptoms["A"] = << "headache" >>
    /\ Contains(ret.text, "Report saved as: reports/John_Doe_")

\* C5: the phase changes only from info_collection to symptoms, from
\* symptoms to completion and from completion to symptoms.
C5_PhaseTransitions ==
    [][\A c \in Conversations :
         conversation_phase'[c] # conversation_phase[c]
            => << conversation_phase[c], conversation_phase'[c] >>
                  \in { << "info_collection", "symptoms" >>,
                        << "symptoms", "completion" >>,
                        << "completion", "symptoms" >> }]_vars

\* The backtrack: in phase completion an utterance without an affirmative
\* phrase sent the phase back to symptoms.
C5_Witness ==
    \E c \in Conversations :
        /\ UtteranceBy(c) /\ conversation_phase[c] = "symptoms"
        /\ out = << ChatMessage("system",
                      "Continue collecting symptoms or information. User message: "
                          \o lastOp.input) >>

\* The insert of a create_patient call that the store refused or failed.
FailedCreateBy(c) ==
    /\ lastOp.name = "insert_patient" /\ lastOp.conv = c
    /\ ~Contains(ret.text, "Patient created!")

\* C6: when the store fails the create, create_patient returns a failure
\* message, raises nothing and leaves the patient details as they were.
C6_CreateFailureIsReturned ==
    [][\A c \in Conversations :
         FailedCreateBy(c)'
            => /\ ret'.status = "returned"
               /\ ret'.text = "Failed to create patient"
               /\ patient_details'[c] = patient_details[c]]_vars

\* C7: end_consultation with no patient adopted returns the no-patient
\* message, does not call the report generator, and leaves the consultation
\* incomplete and the symptoms and the reports folder as they were.
C7_EndConsultationWithoutPatient ==
    [][\A c \in Conversations :
         (EndConsultationBy(c)' /\ ~has_patient(c))
            => /\ ret' = Returned(NoPatientText)
               /\ calls' = << >>
               /\ ~conversation_complete'[c]
               /\ symptoms' = symptoms
               /\ files' = files
               /\ genCalls' = genCalls]_vars

C7_Witness ==
    \E c \in Conversations :
        /\ EndConsultationBy(c) /\ ~has_patient(c)
        /\ ret = Returned(NoPatientText)
        /\ Len(symptoms[c]) = MaxSymptoms

\* C8: a conversation calls the report generator at most once.
C8_AtMostOneReportCall ==
    \A c \in Conversations : genCalls[c] <= 1

\* The rows of the table that hold patient_id.
RowsOf(patient_id) == { row \in patients : row.patient_id = patient_id }

DuplicateText == "IntegrityError: UNIQUE constraint failed: patients.patient_id"

\* C9: when the create calls of two conversations interleave between the
\* look-up of the candidate and the INSERT, the table never holds two rows
\* with one patient_id and the two calls never both return the same
\* identifier; a call whose candidate passed the look-up and was inserted
\* by the other in between is refused by the INSERT.
C9_InsertIsTheUniquenessGate ==
    /\ \A r1, r2 \in patients : r1.patient_id = r2.patient_id => r1 = r2
    /\ \A c1, c2 \in Conversations :
          (c1 # c2 /\ created[c1] # "") => created[c1] # created[c2]

\* Both conversations held the same candidate after their look-ups; one
\* INSERT returned it, the other was refused.
C9_Witness ==
    \E c1, c2 \in Conversations :
        /\ c1 # c2
        /\ lastOp.name = "insert_patient" /\ lastOp.conv = c2
        /\ ret = Raised(DuplicateText)
        /\ created[c1] = lastOp.input /\ created[c2] # lastOp.input
        /\ Cardinality(RowsOf(lastOp.input)) = 1

\* A create reached its INSERT (with a working connection) for patient_id.
InsertStep(patient_id) ==
    /\ lastOp.name \in {"insert_patient", "db_create_patient"}
    /\ lastOp.input = patient_id
    /\ calls[1].fault = "none"

\* C10: a create whose identifier, passed by the caller or generated, is
\* already in the table fails with the duplicate-identifier error and
\* leaves the table, and with it the stored row, as it was.
C10_DuplicateCreateFails ==
    [][\A patient_id \in GeneratedIds :
         (RowsOf(patient_id) # {} /\ InsertStep(patient_id)')
            => /\ ret' = Raised(DuplicateText)
               /\ patients' = patients
               /\ created' = created
               /\ patient_details' = patient_details]_vars

\* The caller passed the identifier of the stored record with other data.
C10_Witness ==
    /\ lastOp.name = "db_create_patient" /\ lastOp.input = "P12345678"
    /\ ret = Raised(DuplicateText)
    /\ RowsOf("P12345678") = { KnownPatient }

\* The utterance just handled was handled with a patient adopted and the
\* consultation open (neither changes while an utterance is handled).
OpenUtteranceBy(c) ==
    UtteranceBy(c) /\ has_patient(c) /\ ~conversation_complete[c]

SaysOneOf(phrases, content) == AnyPhraseIn(phrases, Lower(content))

CollectFirstText(content) ==
    "Collect the patient's symptoms. User message: " \o content

FollowUpText(symptom_list, content) ==
    "Based on the symptoms you've mentioned so far: " \o Join(symptom_list)
        \o ", I'd like to gather more details. User message: " \o content

\* C11: in phase symptoms, an utterance without a completion phrase leaves
\* the phase as it is and creates the collect-first-symptom instruction
\* exactly when no symptom is recorded, the follow-up instruction listing
\* the recorded symptoms exactly when one is, whatever the symptoms say.
C11_InstructionFollowsEmptiness ==
    [][\A c \in Conversations :
         (/\ OpenUtteranceBy(c)'
          /\ conversation_phase[c] = "symptoms"
          /\ ~SaysOneOf({ "that's all", "nothing else", "done", "complete",
                          "finish", "end consultation" }, lastOp'.input))
            => /\ conversation_phase'[c] = "symptoms"
               /\ symptoms[c] = << >>
                    => out' = << ChatMessage("system",
                                   CollectFirstText(lastOp'.input)) >>
               /\ symptoms[c] # << >>
                    => out' = << ChatMessage("system",
                                   FollowUpText(symptoms[c], lastOp'.input)) >>]_vars

\* C12: in phase completion, an utterance that holds "yes", "generate",
\* "complete", "done" or "finish" in any letter case leaves the phase at
\* completion and creates the invoke-report-generation instruction; any
\* other utterance sends the phase to symptoms with the
\* resume-symptom-collection instruction. Either way the consultation stays
\* open and the symptoms and the adopted patient stay as they were.
C12_CompletionPhaseBranches ==
    [][\A c \in Conversations :
         (OpenUtteranceBy(c)' /\ conversation_phase[c] = "completion")
            => /\ IF SaysOneOf({ "yes", "generate", "complete", "done", "finish" },
                               lastOp'.input)
                  THEN /\ conversation_phase'[c] = "completion"
                       /\ out' = << ChatMessage("system",
                                      "I'm now generating your diagnostic report based on the information and symptoms you've provided. Please call the end_consultation function to generate the report.") >>
                  ELSE /\ conversation_phase'[c] = "symptoms"
                       /\ out' = << ChatMessage("system",
                                      "Continue collecting symptoms or information. User message: "
                                          \o lastOp'.input) >>
               /\ conversation_complete' = conversation_complete
               /\ symptoms' = symptoms
               /\ patient_details' = patient_details]_vars

\* "Done", with its capital letter, was taken as the confirmation.
C12_Witness ==
    \E c \in Conversations :
        /\ OpenUtteranceBy(c) /\ lastOp.input = "Done"
        /\ conversation_phase[c] = "completion"
        /\ Len(out) = 1
        /\ Contains(out[1].content, "Please call the end_consultation function")

ConfirmCompletionText(content) ==
    "Thank you for providing all this information. Is there anything else you'd like to add about your symptoms or condition? User message: "
        \o content

\* C13: in phase symptoms, an utterance moves the phase to completion with
\* the confirm-completion instruction if and only if it holds, in any
\* letter case, one of "that's all", "nothing else", "done", "complete",
\* "finish", "end consultation".
C13_CompletionPhraseIffCompletion ==
    [][\A c \in Conversations :
         (OpenUtteranceBy(c)' /\ conversation_phase[c] = "symptoms")
            => LET said == SaysOneOf({ "that's all", "nothing else", "done",
                                       "complete", "finish", "end consultation" },
                                     lastOp'.input)
                   confirm == << ChatMessage("system",
                                   ConfirmCompletionText(lastOp'.input)) >>
               IN  /\ said <=> conversation_phase'[c] = "completion"
                   /\ said <=> out' = confirm]_vars

\* "that's all" closed the symptom collection.
C13_Witness ==
    \E c \in Conversations :
        /\ OpenUtteranceBy(c) /\ lastOp.input = "that's all"
        /\ conversation_phase[c] = "completion"
        /\ out = << ChatMessage("system", ConfirmCompletionText("that's all")) >>

BeginSymptomsText(content) ==
    "Now that we have your basic information, let's discuss your symptoms. User message: "
        \o content

\* C14: in phase info_collection with a patient adopted, the next utterance
\* moves the phase to symptoms and creates the begin-symptom-collection
\* instruction with the utterance in it, whatever the utterance says: a
\* completion or affirmative phrase in it plays no part.
C14_FirstUtteranceWithPatient ==
    [][\A c \in Conversations :
         (OpenUtteranceBy(c)' /\ conversation_phase[c] = "info_collection")
            => /\ conversation_phase'[c] = "symptoms"
               /\ out' = << ChatMessage("system",
                              BeginSymptomsText(lastOp'.input)) >>]_vars

\* The utterance held a completion phrase and the phase went to symptoms.
C14_Witness ==
    \E c \in Conversations :
        /\ OpenUtteranceBy(c) /\ lastOp.input = "that's all"
        /\ conversation_phase[c] = "symptoms"
        /\ out = << ChatMessage("system", BeginSymptomsText("that's all")) >>

ResolveIdentityText(content) ==
    "If the patient has provided a patient ID attempt to look it up. Here is the patient's message: "
        \o content

\* C15: while no patient is adopted and the consultation is open, every
\* utterance leaves the phase, the symptoms, the patient details and the
\* completion flag as they were and creates the resolve-identity
\* instruction that carries the utterance.
C15_NoPatientUtterance ==
    [][\A c \in Conversations :
         (UtteranceBy(c)' /\ ~has_patient(c) /\ ~conversation_complete[c])
            => /\ conversation_phase' = conversation_phase
               /\ symptoms' = symptoms
               /\ patient_details' = patient_details
               /\ conversation_complete' = conversation_complete
               /\ out' = << ChatMessage("system",
                              ResolveIdentityText(lastOp'.input)) >>]_vars

\* Symptoms were recorded before any patient was adopted, and the utterance
\* that followed was answered by the resolve-identity instruction.
C15_Witness ==
    \E c \in Conversations :
        /\ UtteranceBy(c) /\ ~has_patient(c) /\ ~conversation_complete[c]
        /\ lastOp.input = "yes" /\ symptoms[c] # << >>
        /\ conversation_phase[c] = "info_collection"
        /\ out = << ChatMessage("system", ResolveIdentityText("yes")) >>

LookupBy(c) == lastOp.name = "lookup_patient" /\ lastOp.conv = c

\* The patient details that hold the seven values of a stored row.
AdoptedFrom(row) ==
    [patient_id |-> [t |-> "str", v |-> row.patient_id],
     name |-> [t |-> "str", v |-> row.name],
     age |-> [t |-> "int", v |-> row.age],
     height |-> [t |-> "float", v |-> row.height],
     gender |-> [t |-> "str", v |-> row.gender],
     blood_group |-> [t |-> "str", v |-> row.blood_group],
     weight |-> [t |-> "float", v |-> row.weight]]

\* C16: lookup_patient of an identifier the table holds makes the patient
\* details those of the stored row, all seven values; of an identifier the
\* table does not hold it returns "Patient not found" and leaves the
\* patient details (an adopted patient included), the symptoms, the
\* completion flag and the table as they were.
C16_LookupAdoptsOrLeaves ==
    [][\A c \in Conversations :
         LookupBy(c)'
            => IF RowsOf(lastOp'.input) # {}
               THEN \E row \in RowsOf(lastOp'.input) :
                       patient_details'[c] = AdoptedFrom(row)
               ELSE /\ ret' = Returned("Patient not found")
                    /\ patient_details' = patient_details
                    /\ symptoms' = symptoms
                    /\ conversation_complete' = conversation_complete
                    /\ patients' = patients]_vars

\* A look-up that missed while a patient was adopted and symptoms recorded.
C16_Witness ==
    \E c \in Conversations :
        /\ LookupBy(c) /\ lastOp.input = "P00000000"
        /\ ret = Returned("Patient not found")
        /\ patient_details[c] = AdoptedFrom(KnownPatient)
        /\ symptoms[c] # << >>

\* The numbered lines of a symptom list, built from its end.
RECURSIVE ExpectedListing(_)
ExpectedListing(seq) ==
    IF seq = << >> THEN ""
    ELSE ExpectedListing(SubSeq(seq, 1, Len(seq) - 1))
            \o ToString(Len(seq)) \o ". " \o seq[Len(seq)] \o "\n"

\* C17: add_symptom puts its text at the end of the symptom list, leaves
\* the earlier entries and their order, and names in its acknowledgment
\* the length of the list after the append; get_symptoms lists entry i as
\* item i, in the order of insertion, and returns the empty-list sentence
\* exactly when the list is empty.
C17_SymptomListAppendAndListing ==
    [][\A c \in Conversations :
         /\ (lastOp'.name = "add_symptom" /\ lastOp'.conv = c)
               => /\ Len(symptoms'[c]) = Len(symptoms[c]) + 1
                  /\ SubSeq(symptoms'[c], 1, Len(symptoms[c])) = symptoms[c]
                  /\ symptoms'[c][Len(symptoms'[c])] = lastOp'.input
                  /\ ret' = Returned("Symptom added: " \o lastOp'.input
                                     \o ". Total symptoms recorded: "
                                     \o ToString(Len(symptoms'[c])))
         /\ (lastOp'.name = "get_symptoms" /\ lastOp'.conv = c)
               => /\ symptoms' = symptoms
                  /\ ret'.status = "returned"
                  /\ symptoms[c] = << >>
                        <=> ret'.text = "No symptoms have been recorded yet."
                  /\ symptoms[c] # << >>
                        => ret'.text = "Recorded symptoms:\n"
                                          \o ExpectedListing(symptoms[c])]_vars

\* Two different symptoms were listed in the order they were added.
C17_Witness ==
    /\ lastOp.name = "get_symptoms" /\ lastOp.conv = "A"
    /\ symptoms["A"] = << "No symptoms of fever", "headache" >>
    /\ ret = Returned("Recorded symptoms:\n1. No symptoms of fever\n2. headache\n")

\* C18: once the consultation is complete it stays complete, whatever
\* utterance or callable operation follows.
C18_CompleteIsMonotonic ==
    [][\A c \in Conversations :
         conversation_complete[c] => conversation_complete'[c]]_vars

\* A second end_consultation, whose report could not be saved, left the
\* consultation complete.
C18_Witness ==
    \E c \in Conversations :
        /\ EndConsultationBy(c) /\ lastOp.input = "write"
        /\ genCalls[c] = 2 /\ Cardinality(DOMAIN files) = 1
        /\ conversation_complete[c]

\* The step was a create (of a conversation or of the direct client) that
\* returned its identifier.
CreateReturned ==
    /\ lastOp.name \in {"insert_patient", "db_create_patient"}
    /\ ret.status = "returned" /\ ret.text # "Failed to create patient"

SameValues(row, a) ==
    /\ row.name = a.name /\ row.age = a.age /\ row.height = a.height
    /\ row.gender = a.gender /\ row.blood_group = a.blood_group
    /\ row.weight = a.weight

\* C19: after a successful create, through the store or through
\* create_patient, the table holds under the returned identifier one row
\* with the created values and a created_at set by the store; no later
\* step changes or removes a stored row; and lookup_patient with that
\* identifier from another, fresh conversation adopts the seven values.
C19_CreateThenGetRoundTrip ==
    [][/\ CreateReturned'
          => /\ Cardinality({ row \in patients' : row.patient_id = lastOp'.input }) = 1
             /\ \A row \in patients' :
                   row.patient_id = lastOp'.input
                      => /\ SameValues(row, calls'[1].data)
                         /\ row.created_at # NoneTime
                         /\ row.created_at = now
       /\ \A row \in patients : row \in patients'
       /\ \A c1, c2 \in Conversations :
             (/\ c1 # c2 /\ LookupBy(c2)'
              /\ created[c1] # "" /\ lastOp'.input = created[c1]
              /\ patient_details[c2] = EmptyDetails)
                => \E row \in patients :
                      /\ row.patient_id = created[c1]
                      /\ row.created_at # NoneTime
                      /\ patient_details'[c2] = AdoptedFrom(row)]_vars

\* The record one conversation created a second after the start was
\* adopted by the other, which had adopted nothing before.
C19_Witness ==
    /\ LookupBy("B") /\ created["A"] = lastOp.input /\ created["B"] = ""
    /\ \E row \in patients :
          /\ row.patient_id = lastOp.input /\ row.created_at > 0
          /\ row.name = "Mary O'Connor-Smith" /\ row.age = 0
          /\ patient_details["B"] = AdoptedFrom(row)

IdsOf(table) == { row.patient_id : row \in table }

\* C20: the identifier _generate_patient_id returns is, at that moment,
\* not in the table; so creates made one after the other on a working
\* connection each add one row: the rows have pairwise different
\* identifiers and each is found under its identifier.
C20_SequentialCreatesDistinct ==
    [][/\ \A c \in Conversations :
             (lastOp'.name = "_generate_patient_id" /\ lastOp'.conv = c
              /\ pc'[c] = "insert")
                => /\ pending'[c].cand = lastOp'.input
                   /\ lastOp'.input \notin IdsOf(patients)
       /\ (lastOp'.name = "insert_patient" /\ calls'[1].fault = "none")
             => /\ ret' = Returned("Patient created! Your patient ID is: "
                                   \o lastOp'.input)
                /\ lastOp'.input \notin IdsOf(patients)
                /\ Cardinality(patients') = Cardinality(patients) + 1
                /\ Cardinality(IdsOf(patients')) = Cardinality(patients')
                /\ \A id \in IdsOf(patients') :
                      \E row \in patients' :
                         row.patient_id = id /\ RowOf(patients', id) = row]_vars

\* MaxCreates creates were made; the table holds their rows and the one
\* it held before.
C20_Witness ==
    /\ lastOp.name = "insert_patient" /\ ret.status = "returned"
    /\ Cardinality(patients) = MaxCreates + 1
    /\ Cardinality(IdsOf(patients)) = MaxCreates + 1
    /\ KnownPatient \in patients

Digits == { "0", "1", "2", "3", "4", "5", "6", "7", "8", "9" }

\* "P" followed by exactly 8 decimal digits
WellFormedId(id) ==
    /\ Len(id) = 9 /\ SubSeq(id, 1, 1) = "P"
    /\ \A k \in 2 .. 9 : SubSeq(id, k, k) \in Digits

\* The identifiers the generator calls of the recorded run returned (a
\* drawn identifier the table holds is not returned).
IsReturnedId(e) ==
    e.name = "db_generate_patient_id" /\ e.input \notin IdsOf(patients)
ReturnedIds == SelectSeq(trace, IsReturnedId)

\* C21 (first half): every identifier the generator returns is "P" followed
\* by exactly 8 decimal digits.
GeneratedIdsWellFormed ==
    \A i \in 1 .. Len(ReturnedIds) : WellFormedId(ReturnedIds[i].input)

\* C21: every identifier the generator returns is "P" followed by exactly
\* 8 decimal digits, and generator calls made one after the other with no
\* insertion between them return pairwise different identifiers.
C21_GeneratedIdsWellFormedAndDistinct ==
    /\ GeneratedIdsWellFormed
    /\ \A i, j \in 1 .. Len(ReturnedIds) :
          i # j => ReturnedIds[i].input # ReturnedIds[j].input

\* The step called get_patient_by_id for an identifier the table does not
\* hold.
MissedGet ==
    /\ lastOp.name \in {"db_get_patient_by_id", "lookup_patient"}
    /\ lastOp.input \notin IdsOf(patients)

\* C22: a stored row is never removed and none of its values, created_at
\* included, ever changes, whatever create, get or look-up follows; and
\* get_patient_by_id for an identifier the table does not hold returns its
\* "absent" result, raises nothing and writes nothing.
C22_StoreIsAppendOnly ==
    [][/\ \A row \in patients : row \in patients'
       /\ \A id \in IdsOf(patients) :
             Cardinality({ row \in patients' : row.patient_id = id }) = 1
       /\ MissedGet'
             => /\ ret'.status = "returned"
                /\ ret'.text \in {"None", "Patient not found"}
                /\ patients' = patients]_vars

\* A get for an identifier never stored returned "absent" while the table
\* held the record it started with and a record created since.
C22_Witness ==
    /\ lastOp.name = "db_get_patient_by_id" /\ lastOp.input = "P00000000"
    /\ ret = Returned("None")
    /\ KnownPatient \in patients /\ Cardinality(patients) = 2

\* C23: a create that has returned its identifier has its row in the
\* table, and the row stays there through every later step, the end and
\* restart of the process included; when the process ends after the INSERT
\* and before the commit, the table holds no row for that identifier and
\* nothing but the rows it held.
C23_CommittedCreateIsDurable ==
    [][/\ (lastOp'.name = "insert_commit" /\ ret'.status = "returned"
           /\ ret'.text # "Failed to create patient")
             => \E row \in patients' :
                   /\ row.patient_id = lastOp'.input
                   /\ RowOf(patients', lastOp'.input) = row
       /\ \A row \in patients : RowOf(patients', row.patient_id) = row
       /\ \A c \in Conversations :
             (lastOp'.name = "restart" /\ pc[c] = "commit")
                => /\ pending[c].cand \notin IdsOf(patients')
                   /\ RowOf(patients', pending[c].cand) = None
                   /\ patients' = patients]_vars

\* The process was started again a second or more after a create returned:
\* the created row is in the table, and the conversation is new.
C23_Witness ==
    /\ lastOp.name = "restart" /\ created["A"] = "" /\ now > 0
    /\ \E row \in patients :
          /\ row.name = "Mary O'Connor-Smith" /\ row.created_at < now
          /\ RowOf(patients, row.patient_id) = row

\* C24: a new controller (at the start, and after each start of the
\* process) has the phase info_collection, no symptom, every patient detail
\* empty, so that has_patient is false and no detail is rendered, and an
\* open consultation.
C24_NewControllerState ==
    (lastOp = NoOp \/ lastOp.name = "restart")
       => \A c \in Conversations :
             /\ conversation_phase[c] = "info_collection"
             /\ symptoms[c] = << >>
             /\ \A key \in DOMAIN patient_details[c] :
                   patient_details[c][key] = [t |-> "str", v |-> ""]
             /\ DOMAIN patient_details[c] =
                   { "patient_id", "name", "age", "height", "gender",
                     "blood_group", "weight" }
             /\ ~has_patient(c)
             /\ get_patient_str(c) = ""
             /\ ~is_consultation_complete(c)

\* The controller that follows a conversation which created a patient:
\* the process was started again, and the controller is new.
C24_Witness ==
    /\ lastOp.name = "restart" /\ Cardinality(patients) = 2
    /\ patient_details["A"].patient_id = [t |-> "str", v |-> ""]
    /\ ~has_patient("A") /\ symptoms["A"] = << >>
    /\ conversation_phase["A"] = "info_collection"
    /\ ~conversation_complete["A"]

\* C25 as claimed: from every state with a patient adopted and the
\* consultation open, a completion phrase, then an affirmative phrase, then
\* the end_consultation call the session is told to make lead to a
\* complete consultation.
C25_ClosingFromAnyPhase ==
    (trace = << >>) ~> conversation_complete["A"]

\* C25 amended: from every such state in phase symptoms, a completion
\* phrase, then an affirmative phrase, then the end_consultation call the
\* session is told to make lead to a complete consultation, also when the
\* report cannot be saved.
C25_ClosingFromSymptomsPhase ==
    (trace = << >> /\ conversation_phase["A"] = "symptoms")
       ~> conversation_complete["A"]

\* The close started in phase symptoms, and the consultation is complete
\* although the report could not be written.
C25_Witness ==
    /\ Len(trace) = 3 /\ trace # NotRecorded
    /\ trace[1].input = "that's all" /\ trace[1].phase = "completion"
    /\ trace[3].name = "end_consultation" /\ trace[3].input = "write"
    /\ conversation_complete["A"] /\ DOMAIN files = {}

\* C26: a step of one conversation, utterance or callable operation,
\* leaves the phase, the symptoms, the patient details and the completion
\* flag of the other conversation as they were.
C26_ConversationStateIsPrivate ==
    [][\A c1, c2 \in Conversations :
         (c1 # c2 /\ lastOp'.conv = c1)
            => /\ conversation_phase'[c2] = conversation_phase[c2]
               /\ symptoms'[c2] = symptoms[c2]
               /\ patient_details'[c2] = patient_details[c2]
               /\ conversation_complete'[c2] = conversation_complete[c2]]_vars

\* One conversation is complete with its symptoms recorded; the other,
\* which acted last, has adopted the same patient and is at its start.
C26_Witness ==
    /\ lastOp.conv = "B" /\ lastOp.name = "lookup_patient"
    /\ conversation_complete["A"] /\ ~conversation_complete["B"]
    /\ conversation_phase["A"] = "completion"
    /\ conversation_phase["B"] = "info_collection"
    /\ symptoms["A"] # << >> /\ symptoms["B"] = << >>
    /\ patient_details["A"] = patient_details["B"] /\ has_patient("B")

\* The report text is that of a consultation of a patient of this name at
\* second t.
ReportIsFor(text, name, t) ==
    /\ Contains(text, "\nName: " \o name \o "\n")
    /\ Contains(text, "CONSULTATION DATE: " \o DateTimeText(t) \o "\n")

ReportNames == { patient.name : patient \in ReportPatients }

\* C27: two report filenames are the same exactly when the sanitized
\* patient names and the seconds of the consultation are the same. So a
\* saved report leaves every file of the folder in place, takes a path no
\* file has unless the folder holds a report of the same sanitized name
\* and second, and in that case replaces that file with the later text.
C27_FilenamesCollideOnNameAndSecond ==
    /\ \A n1, n2 \in ReportNames : \A t1, t2 \in 0 .. MaxTime :
          generate_filename(n1, t1) = generate_filename(n2, t2)
             <=> (SanitizeFrom(n1, FALSE) = SanitizeFrom(n2, FALSE) /\ t1 = t2)
    /\ [][(lastOp'.name = "generate_and_save_report" /\ ret'.status = "returned")
             => /\ DOMAIN files \subseteq DOMAIN files'
                /\ ret'.text \in DOMAIN files'
                /\ ReportIsFor(files'[ret'.text], lastOp'.input, now)
                /\ \A path \in DOMAIN files :
                      /\ path # ret'.text => files'[path] = files[path]
                      /\ path = ret'.text
                            <=> \E name \in ReportNames :
                                   /\ ReportIsFor(files[path], name, now)
                                   /\ SanitizeFrom(name, FALSE)
                                         = SanitizeFrom(lastOp'.input, FALSE)]_vars

\* In the first second two reports of the same sanitized name were saved
\* and one file holds the later of them; the report of the next second is
\* a second file.
C27_Witness ==
    /\ lastOp.name = "generate_and_save_report" /\ ret.status = "returned"
    /\ now = 1
    /\ DOMAIN files = { "reports/John_Doe_20240201_143000_report.txt",
                        "reports/John_Doe_20240201_143001_report.txt" }
    /\ ReportIsFor(files["reports/John_Doe_20240201_143000_report.txt"],
                   "John Doe|", 0)
    /\ ReportIsFor(files["reports/John_Doe_20240201_143001_report.txt"],
                   "John Doe", 1)

DetailKeys ==
    { "patient_id", "name", "age", "height", "gender", "blood_group", "weight" }

\* C28: get_patient_details returns one "field: value" line for every
\* patient detail that holds a value (any value but the empty string of a
\* new controller), and no such line when no patient is adopted.
C28_DetailsRenderEveryValue ==
    \A c \in Conversations :
        (lastOp.name = "get_patient_details" /\ lastOp.conv = c)
           => /\ ret.status = "returned"
              /\ \A key \in DetailKeys :
                    patient_details[c][key] # [t |-> "str", v |-> ""]
                       => Contains(ret.text,
                                   key \o ": " \o Format(patient_details[c][key])
                                       \o "\n")
              /\ ~has_patient(c) => ret.text = "The patient details are: "

\* end_consultation has just handed a patient and a symptom list to the
\* report generator.
HandedToGenerator ==
    /\ lastOp.name = "end_consultation"
    /\ Len(calls) = 1
    /\ calls[1].fn = "generate_and_save_report"

\* C29: the Patient end_consultation hands to generate_and_save_report
\* is, in every field and created_at included, the stored row of the patient
\* the controller adopted, and the symptom list handed over is the
\* controller's list in the order of insertion.
C29_HandedRecordIsStoredRecord ==
    HandedToGenerator
       => /\ calls[1].patient = RowOf(patients, patient_details[lastOp.conv].patient_id.v)
          /\ calls[1].symptoms = symptoms[lastOp.conv]

\* The part of C29 the code keeps: the seven fields other than created_at
\* are those of the stored row, and the symptom list is the controller's.
HandedRecordAgreesButForCreatedAt ==
    HandedToGenerator
       => LET row == RowOf(patients, patient_details[lastOp.conv].patient_id.v) IN
          /\ row # None
          /\ [calls[1].patient EXCEPT !.created_at = row.created_at] = row
          /\ calls[1].symptoms = symptoms[lastOp.conv]

CallableNames ==
    { "lookup_patient", "create_patient", "_generate_patient_id",
      "insert_patient", "add_symptom", "get_symptoms", "get_patient_details",
      "end_consultation" }

\* C30: handling an utterance changes at most the phase: the symptom
\* lists, the patient details, the completion flags and the store stay as
\* they are; and no step of lookup_patient, create_patient, add_symptom,
\* get_symptoms, get_patient_details or end_consultation changes a phase.
C30_UtterancesAndCallablesWriteDisjointState ==
    [][ /\ lastOp'.name = "on_user_speech_committed"
           => UNCHANGED << symptoms, patient_details, conversation_complete,
                           patients >>
        /\ lastOp'.name \in CallableNames => UNCHANGED conversation_phase
      ]_vars

\* An utterance has just moved the phase to completion, with the adopted
\* patient and a recorded symptom in place.
C30_Witness ==
    /\ lastOp.name = "on_user_speech_committed"
    /\ conversation_phase["A"] = "completion"
    /\ has_patient("A")
    /\ Len(symptoms["A"]) > 0

\* C31: in every state a conversation whose phase is symptoms or
\* completion has a patient adopted, and no step (an utterance, a callable,
\* a lookup that finds nothing, a create that fails) takes the adopted
\* patient away: has_patient, once true, stays true.
C31_PhaseNeedsPatientAndPatientStays ==
    /\ [](\A c \in Conversations :
             conversation_phase[c] \in {"symptoms", "completion"} => has_patient(c))
    /\ [][ \A c \in Conversations : has_patient(c) => has_patient(c)' ]_vars

\* A lookup has just found nothing, or a create has just failed, in a
\* conversation that is past info_collection with its patient adopted.
C31_Witness ==
    /\ lastOp.conv = "A"
    /\ \/ lastOp.name = "lookup_patient" /\ ret.text = "Patient not found"
       \/ lastOp.name = "insert_patient" /\ ret.status = "raised"
    /\ conversation_phase["A"] \in {"symptoms", "completion"}
    /\ has_patient("A")

InvokeReportText ==
    "I'm now generating your diagnostic report based on the information and symptoms you've provided. Please call the end_consultation function to generate the report."

\* The utterance just handled in conversation c told the session to call
\* end_consultation.
InvokeReportEmitted(c) ==
    /\ UtteranceBy(c)
    /\ \E i \in 1 .. Len(out) : out[i].content = InvokeReportText

\* C32: the instruction to call end_consultation is emitted only by an
\* utterance handled in a state where the phase is completion, a patient is
\* adopted and the consultation is not complete; and an end_consultation
\* call that is the next step after that instruction does not return the
\* no-patient message.
C32_InvokeReportOnlyWhenReady ==
    [][ \A c \in Conversations :
          /\ InvokeReportEmitted(c)'
                => /\ conversation_phase[c] = "completion"
                   /\ has_patient(c)
                   /\ ~conversation_complete[c]
          /\ (InvokeReportEmitted(c) /\ EndConsultationBy(c)')
                => /\ ret'.status = "returned"
                   /\ ret'.text # NoPatientText
                   /\ ReportCall'
      ]_vars

\* The instruction has just been emitted, in phase completion, with a
\* patient and a symptom, before any report.
C32_Witness ==
    /\ InvokeReportEmitted("A")
    /\ conversation_phase["A"] = "completion"
    /\ has_patient("A") /\ ~conversation_complete["A"]
    /\ Len(symptoms["A"]) = 1
    /\ genCalls["A"] = 0

\* C33: once a conversation is complete, no step of any kind changes
\* its symptom list or its patient details.
C33_CompleteConsultationIsFrozen ==
    [][ \A c \in Conversations :
          conversation_complete[c]
             => /\ symptoms'[c] = symptoms[c]
                /\ patient_details'[c] = patient_details[c]
      ]_vars

\* The part of C33 the code keeps: an utterance handled after completion
\* changes neither.
UtteranceAfterCompleteChangesNothing ==
    [][ \A c \in Conversations :
          (conversation_complete[c] /\ UtteranceBy(c)')
             => /\ symptoms'[c] = symptoms[c]
                /\ patient_details'[c] = patient_details[c]
      ]_vars

\* The utterance just handled in conversation c moved its phase from
\* symptoms to completion (the only step that asks to confirm completion).
MovedToCompletion(c) ==
    /\ UtteranceBy(c)
    /\ conversation_phase[c] = "completion"
    /\ Len(out) = 1
    /\ out[1].content = ConfirmCompletionText(lastOp.input)

\* The same utterance is handled again in conversation c as the next step.
RepeatedUtterance(c) ==
    /\ UtteranceBy(c)'
    /\ lastOp'.input = lastOp.input

\* C34: an utterance that moved the phase from symptoms to completion,
\* handled again unchanged as the next step, leaves the phase at completion
\* and tells the session to call end_consultation.
C34_RepeatedCompletionUtteranceStays ==
    [][ \A c \in Conversations :
          (MovedToCompletion(c) /\ RepeatedUtterance(c))
             => /\ conversation_phase'[c] = "completion"
                /\ InvokeReportEmitted(c)'
      ]_vars

ResumeSymptomsText(content) ==
    "Continue collecting symptoms or information. User message: " \o content

\* C34 as the code has it: such an utterance, handled again unchanged as
\* the next step, leaves the phase at completion and tells the session to
\* call end_consultation when it holds one of "yes", "generate", "complete",
\* "done", "finish"; when it holds none of them (as "that's all" does) the
\* phase goes back to symptoms and the session is told to go on collecting.
C34_RepeatedUtteranceStaysIffAffirmative ==
    [][ \A c \in Conversations :
          (MovedToCompletion(c) /\ RepeatedUtterance(c))
             => IF SaysOneOf({ "yes", "generate", "complete", "done", "finish" },
                             lastOp.input)
                THEN /\ conversation_phase'[c] = "completion"
                     /\ InvokeReportEmitted(c)'
                ELSE /\ conversation_phase'[c] = "symptoms"
                     /\ Len(out') = 1
                     /\ out'[1].content = ResumeSymptomsText(lastOp.input)
      ]_vars

\* The last two steps of the run were the same utterance: the first moved
\* the phase from symptoms to completion, the second has just been handled.
C34_Witness ==
    /\ Len(trace) >= 3
    /\ LET n == Len(trace) IN
       /\ IsUtterance(trace[n]) /\ IsUtterance(trace[n - 1])
       /\ trace[n].input = trace[n - 1].input
       /\ trace[n - 2].phase = "symptoms"
       /\ trace[n - 1].phase = "completion"
       /\ trace[n].phase = "symptoms"

Phases == { "info_collection", "symptoms", "completion" }

\* C35: every utterance handled puts exactly one message into the
\* session and asks for exactly one response; the phase is always one of
\* info_collection, symptoms, completion, and the message is never the
\* utterance forwarded as a user message (the default branch of
\* handle_query).
C35_OneMessageOneResponse ==
    /\ \A c \in Conversations : conversation_phase[c] \in Phases
    /\ \A c \in Conversations :
          UtteranceBy(c)
             => /\ Len(out) = 1
                /\ responses = 1
                /\ out[1].role \in { "system", "assistant" }
                /\ out[1] # ChatMessage("user", lastOp.input)

\* An utterance has just been handled in each kind of state: here, in
\* phase completion with the consultation open, by handle_query.
C35_Witness ==
    /\ UtteranceBy("A")
    /\ conversation_phase["A"] = "completion"
    /\ ~conversation_complete["A"]
    /\ Len(out) = 1 /\ out[1].role = "system"
    /\ responses = 1

\* C36: a create that generated its identifier never ends with the
\* duplicate-identifier error of the store, whatever other creates do
\* between its check of the candidate and its INSERT.
C36_GeneratedCreateNeverDuplicate ==
    lastOp.name = "insert_patient"
       => ~(ret.status = "raised" /\ Contains(ret.text, "UNIQUE constraint failed"))

\* Every identifier random.randint can lead to is in the table.
AllTaken == \A id \in GeneratedIds : \E row \in patients : row.patient_id = id

\* C37: with fair sampling a generation that has begun ends, unless
\* every identifier of the range has been taken by then; a draw writes
\* nothing to the table; and once every identifier is taken a generation
\* that is under way stays under way.
C37_GenerationEndsIffAnIdIsFree ==
    /\ \A c \in Conversations :
          (pc[c] = "generate") ~> (pc[c] # "generate" \/ AllTaken)
    /\ [][ /\ lastOp'.name = "_generate_patient_id" => patients' = patients
           /\ \A c \in Conversations :
                 (pc[c] = "generate" /\ AllTaken) => pc'[c] = "generate"
         ]_vars

\* A draw has just hit the identifier on record while another identifier is
\* free: the generation goes on.
C37_Witness ==
    /\ lastOp.name = "_generate_patient_id" /\ lastOp.conv = "A"
    /\ lastOp.input = "P12345678"
    /\ pc["A"] = "generate"
    /\ ~AllTaken

====
